---- MODULE Spec2Model ----
(***************************************************************************)
(* Model of src/lib.rs: the Universe of Conway's Game of Life on a torus,  *)
(* its canvas, and the calls the host makes on it.                         *)
(*                                                                         *)
(* Cells are the strings "Dead" and "Alive".  A Vec<Cell> is a sequence;   *)
(* the code's 0-based index idx is position idx + 1 of the sequence.       *)
(* A panic (an index past the end of the Vec, a remainder by zero, a chunk *)
(* size of zero) ends the program: status becomes "panic" and no further   *)
(* call is made.                                                           *)
(*                                                                         *)
(* The u32 values of the code are modelled as naturals: the bounds below   *)
(* keep every product and sum the code computes far below 2^32, so no      *)
(* arithmetic of the model wraps or overflows.                             *)
(***************************************************************************)
EXTENDS Integers, Sequences, FiniteSets

VARIABLES
    width,          \* Universe.width
    height,         \* Universe.height
    cells,          \* Universe.cells
    canvas_width,   \* the canvas element's width attribute
    canvas_height,  \* the canvas element's height attribute
    status,         \* "ok", or "panic" once a call has panicked
    op,             \* name of the last call made
    args,           \* arguments of the last call (when recorded)
    pre,            \* the universe as it was before the last call (when recorded)
    ret,            \* value returned by the last call (<< >> when it returns none)
    repeat,         \* whether the last call repeated the call before it (when recorded)
    seed,           \* glider runs: the origin the glider was seeded at
    gen             \* glider runs: number of ticks since the glider was seeded

vars == <<width, height, cells, canvas_width, canvas_height, status,
          op, args, pre, ret, repeat, seed, gen>>

prog == <<width, height, cells, canvas_width, canvas_height>>

----------------------------------------------------------------------------
(* Bounds of the model. *)

\* Largest width or height passed to new, set_width and set_height, and
\* largest row or column passed to a call.
MaxDim == 3

\* Largest number of cells of a universe in runs of arbitrary call sequences.
MaxCells == 6

\* Largest number of cells of a universe in runs that record each call.
GridCells == 9

\* Longest list passed to set_cells in runs of arbitrary call sequences.
MaxList == 1

\* Longest list passed to set_cells in runs that record the call.
ListLen == 2

\* Largest width or height of a universe seeded with a glider (smallest: 5).
MaxGliderDim == 6

\* Most ticks followed after a glider is seeded.
MaxGen == 24

Dims == 0 .. MaxDim

----------------------------------------------------------------------------
(* Constants and types of the program. *)

CELL_SIZE == 15

Dead == "Dead"

Alive == "Alive"

Cell == {Dead, Alive}

\* The universe the handlers read as `self`.
self == [width |-> width, height |-> height, cells |-> cells]

Nil == [width |-> 0, height |-> 0, cells |-> << >>]

----------------------------------------------------------------------------
(* Helpers of the program. *)

\* random_cells: any vector of width * height cells can come out.
random_cells(w, h) == [1 .. (w * h) -> Cell]

\* (0..n).map(|_| Cell::Dead).collect()
dead_cells(n) == [i \in 1 .. n |-> Dead]

\* Universe::get_index
get_index(u, row, column) == row * u.width + column

\* self.cells[idx], for idx in bounds
cell_at(u, idx) == u.cells[idx + 1]

\* A toggle that only ever revives.
toggle_reviving(c) == Alive

\* Cell::toggle
toggle(c) == IF c = Alive THEN Dead ELSE Alive

\* Cell::set_alive
set_alive(c) == Alive

\* The arrays the two loops of live_neighbor_count run over.
delta_rows(u) == <<u.height - 1, 0, 1>>

delta_cols(u) == <<u.width - 1, 0, 1>>

\* The iterations of the double loop that get past the `continue`.
counted(u) ==
    {p \in (1 .. 3) \X (1 .. 3) :
        ~(delta_rows(u)[p[1]] = 0 /\ delta_cols(u)[p[2]] = 0)}

\* The index read in iteration p of the double loop.
neighbour_index(u, row, column, p) ==
    get_index(u, (row + delta_rows(u)[p[1]]) % u.height,
                 (column + delta_cols(u)[p[2]]) % u.width)

\* live_neighbor_count panics: height - 1 or width - 1 underflows or the
\* remainder is by zero (a panic in debug and in release builds alike, since
\* the remainder follows the subtraction), or an index is out of bounds.
live_neighbor_count_panics(u, row, column) ==
    \/ u.height = 0
    \/ u.width = 0
    \/ \E p \in counted(u) : neighbour_index(u, row, column, p) >= Len(u.cells)

\* Universe::live_neighbor_count, when it does not panic: one is added per
\* counted iteration whose cell is Alive.
live_neighbor_count(u, row, column) ==
    Cardinality({p \in counted(u) :
        cell_at(u, neighbour_index(u, row, column, p)) = Alive})

\* The match with overpopulation starting at three neighbours.
next_cell_crowded(cell, x) ==
    IF cell = Alive /\ x < 2 THEN Dead
    ELSE IF cell = Alive /\ x = 2 THEN Alive
    ELSE IF cell = Alive /\ x > 2 THEN Dead
    ELSE IF cell = Dead /\ x = 3 THEN Alive
    ELSE cell

\* The match of Universe::tick, arm by arm.
next_cell(cell, x) ==
    IF cell = Alive /\ x < 2 THEN Dead
    ELSE IF cell = Alive /\ (x = 2 \/ x = 3) THEN Alive
    ELSE IF cell = Alive /\ x > 3 THEN Dead
    ELSE IF cell = Dead /\ x = 3 THEN Alive
    ELSE cell

\* The k-th and later iterations of tick's loops (row-major: row k \div width,
\* column k % width), reading self.cells and writing next.
RECURSIVE tick_loop(_, _, _)
tick_loop(u, next, k) ==
    IF k >= u.width * u.height THEN next
    ELSE LET row == k \div u.width
             col == k % u.width
             idx == get_index(u, row, col)
             cell == cell_at(u, idx)
             live_neighbors == live_neighbor_count(u, row, col)
         IN  tick_loop(u, [next EXCEPT ![idx + 1] = next_cell(cell, live_neighbors)],
                       k + 1)

\* The same loops with the neighbours counted in the vector being written.
RECURSIVE tick_loop_in_place(_, _, _)
tick_loop_in_place(u, next, k) ==
    IF k >= u.width * u.height THEN next
    ELSE LET row == k \div u.width
             col == k % u.width
             idx == get_index(u, row, col)
             cell == cell_at(u, idx)
             live_neighbors ==
                 live_neighbor_count([u EXCEPT !.cells = next], row, col)
         IN  tick_loop_in_place(u,
                 [next EXCEPT ![idx + 1] = next_cell(cell, live_neighbors)], k + 1)

tick_cells_in_place(u) == tick_loop_in_place(u, u.cells, 0)

\* The vector tick assigns to self.cells: next starts as a clone.
tick_cells(u) == tick_loop(u, u.cells, 0)

\* tick panics when an iteration reads out of bounds or its count panics.
tick_panics(u) ==
    \E row \in 0 .. u.height - 1 : \E col \in 0 .. u.width - 1 :
        \/ get_index(u, row, col) >= Len(u.cells)
        \/ live_neighbor_count_panics(u, row, col)

\* set_width forgetting to reallocate.
set_width_cells_stale(u, w) == u.cells

\* set_width resizing in place: only cells past the old end start Dead.
set_width_cells_kept(u, w) ==
    [i \in 1 .. (w * u.height) |-> IF i <= Len(u.cells) THEN u.cells[i] ELSE Dead]

\* The vector set_width assigns: width * self.height dead cells.
set_width_cells(u, w) == dead_cells(w * u.height)

\* set_height multiplying by the height it has just stored.
set_height_cells_squared(u, h) == dead_cells(h * h)

\* The vector set_height assigns: height * self.width dead cells.
set_height_cells(u, h) == dead_cells(h * u.width)

----------------------------------------------------------------------------
(* The calls, as they act on the universe and its canvas. *)

Panic == status' = "panic" /\ UNCHANGED prog

\* Universe::new
new(w, h) ==
    /\ cells \in random_cells(w, h)
    /\ canvas_height = (CELL_SIZE + 1) * w + 1
    /\ canvas_width = (CELL_SIZE + 1) * h + 1
    /\ height = h
    /\ width = w
    /\ status = "ok"

\* Universe::random_mutate
random_mutate ==
    /\ status = "ok"
    /\ cells' \in random_cells(width, height)
    /\ UNCHANGED <<width, height, canvas_width, canvas_height, status>>

\* Universe::tick
tick ==
    /\ status = "ok"
    /\ IF tick_panics(self)
       THEN Panic
       ELSE /\ cells' = tick_cells(self)
            /\ UNCHANGED <<width, height, canvas_width, canvas_height, status>>

\* Universe::set_width
set_width(w) ==
    /\ status = "ok"
    /\ canvas_width' = (CELL_SIZE + 1) * w + 1
    /\ width' = w
    /\ cells' = set_width_cells(self, w)
    /\ UNCHANGED <<height, canvas_height, status>>

\* Universe::set_height
set_height(h) ==
    /\ status = "ok"
    /\ canvas_height' = (CELL_SIZE + 1) * h + 1
    /\ height' = h
    /\ cells' = set_height_cells(self, h)
    /\ UNCHANGED <<width, canvas_width, status>>

\* Universe::toggle_cell
toggle_cell(row, column) ==
    /\ status = "ok"
    /\ LET idx == get_index(self, row, column)
       IN  IF idx >= Len(cells)
           THEN Panic
           ELSE /\ cells' = [cells EXCEPT ![idx + 1] = toggle(@)]
                /\ UNCHANGED <<width, height, canvas_width, canvas_height, status>>

\* Universe::set_alive_cell
set_alive_cell(row, column) ==
    /\ status = "ok"
    /\ LET idx == get_index(self, row, column)
       IN  IF idx >= Len(cells)
           THEN Panic
           ELSE /\ cells' = [cells EXCEPT ![idx + 1] = set_alive(@)]
                /\ UNCHANGED <<width, height, canvas_width, canvas_height, status>>

\* The loop of set_cells toggling each listed cell instead of setting it.
RECURSIVE set_cells_loop_toggling(_, _, _)
set_cells_loop_toggling(u, cs, list) ==
    IF list = << >> THEN [cells |-> cs, done |-> TRUE]
    ELSE LET idx == get_index(u, Head(list)[1], Head(list)[2])
         IN  IF idx >= Len(cs)
             THEN [cells |-> cs, done |-> FALSE]
             ELSE set_cells_loop_toggling(u, [cs EXCEPT ![idx + 1] = toggle(@)],
                                          Tail(list))

\* The loop of set_cells over the rest of the list: the cells written so far,
\* and whether the loop ran to its end (an index out of bounds panics).
RECURSIVE set_cells_loop(_, _, _)
set_cells_loop(u, cs, list) ==
    IF list = << >> THEN [cells |-> cs, done |-> TRUE]
    ELSE LET idx == get_index(u, Head(list)[1], Head(list)[2])
         IN  IF idx >= Len(cs)
             THEN [cells |-> cs, done |-> FALSE]
             ELSE set_cells_loop(u, [cs EXCEPT ![idx + 1] = Alive], Tail(list))

\* Universe::set_cells
set_cells(list) ==
    /\ status = "ok"
    /\ LET r == set_cells_loop(self, cells, list)
       IN  /\ cells' = r.cells
           /\ status' = IF r.done THEN "ok" ELSE "panic"
    /\ UNCHANGED <<width, height, canvas_width, canvas_height>>

\* slice::chunks(n) for n > 0
RECURSIVE chunks(_, _)
chunks(s, n) ==
    IF s = << >> THEN << >>
    ELSE IF Len(s) <= n THEN <<s>>
    ELSE <<SubSeq(s, 1, n)>> \o chunks(SubSeq(s, n + 1, Len(s)), n)

\* The glyph fmt writes for a cell: the hollow or the filled square.
symbol(cell) == IF cell = Dead THEN "hollow" ELSE "filled"

\* What fmt writes for one chunk: its glyphs, then writeln's line feed.
fmt_line(line) == [i \in 1 .. Len(line) |-> symbol(line[i])] \o <<"\n">>

RECURSIVE fmt_lines(_)
fmt_lines(ls) ==
    IF ls = << >> THEN << >> ELSE fmt_line(Head(ls)) \o fmt_lines(Tail(ls))

\* <Universe as Display>::fmt, when it does not panic.
fmt(u) == fmt_lines(chunks(u.cells, u.width))

\* chunks asserts that the chunk size is not zero.
fmt_panics(u) == u.width = 0

\* Universe::render
render ==
    /\ status = "ok"
    /\ IF fmt_panics(self)
       THEN Panic /\ ret' = << >>
       ELSE ret' = fmt(self) /\ UNCHANGED <<prog, status>>

\* A call of Universe::live_neighbor_count by the host.
count_neighbors(row, column) ==
    /\ status = "ok"
    /\ IF live_neighbor_count_panics(self, row, column)
       THEN Panic /\ ret' = << >>
       ELSE ret' = live_neighbor_count(self, row, column) /\ UNCHANGED <<prog, status>>

----------------------------------------------------------------------------
(* Bookkeeping of the calls made. *)

\* The call is noted by name only.
Note(name) == op' = name /\ UNCHANGED <<args, pre, repeat, seed, gen>>

\* The call is recorded with its arguments and the universe it was made on.
Record(name, a) ==
    /\ op' = name
    /\ args' = a
    /\ pre' = self
    /\ repeat' = (op = name /\ args = a)
    /\ UNCHANGED <<seed, gen>>

\* The call returns nothing.
Void == ret' = << >>

\* The state new(w, h) leaves, for a universe of at most cap cells.
Constructed(cap) ==
    /\ \E w \in Dims, h \in Dims : w * h <= cap /\ new(w, h)
    /\ op = "new"
    /\ args = << >>
    /\ pre = Nil
    /\ ret = << >>
    /\ repeat = FALSE
    /\ seed = << >>
    /\ gen = 0

\* The lists of at most n (row, column) pairs.
Lists(n) == UNION {[1 .. k -> Dims \X Dims] : k \in 0 .. n}

----------------------------------------------------------------------------
(* Spec: any sequence of the mutating calls on a constructed universe. *)

Init == Constructed(MaxCells)

Tick == tick /\ Note("tick") /\ Void

RandomMutate == random_mutate /\ Note("random_mutate") /\ Void

SetWidth ==
    \E n \in Dims :
        n * height <= MaxCells /\ set_width(n) /\ Note("set_width") /\ Void

SetHeight ==
    \E n \in Dims :
        n * width <= MaxCells /\ set_height(n) /\ Note("set_height") /\ Void

ToggleCell ==
    \E row \in Dims, col \in Dims :
        toggle_cell(row, col) /\ Note("toggle_cell") /\ Void

SetAliveCell ==
    \E row \in Dims, col \in Dims :
        set_alive_cell(row, col) /\ Note("set_alive_cell") /\ Void

SetCells ==
    \E list \in Lists(MaxList) :
        set_cells(list) /\ Note("set_cells") /\ Void

Next ==
    \/ Tick
    \/ RandomMutate
    \/ SetWidth
    \/ SetHeight
    \/ ToggleCell
    \/ SetAliveCell
    \/ SetCells

Spec == Init /\ [][Next]_vars

----------------------------------------------------------------------------
(* SpecLife: tick and the reading calls on a constructed universe, each    *)
(* recorded with its arguments and the universe it was made on.            *)

InitLife == Constructed(GridCells)

TickCall == tick /\ Record("tick", << >>) /\ Void

CountCall ==
    \E row \in Dims, col \in Dims :
        count_neighbors(row, col) /\ Record("live_neighbor_count", <<row, col>>)

RenderCall == render /\ Record("render", << >>)

NextLife ==
    \/ TickCall
    \/ CountCall
    \/ RenderCall

SpecLife == InitLife /\ [][NextLife]_vars

----------------------------------------------------------------------------
(* SpecResize: recorded calls of set_width and set_height.                 *)

InitResize == Constructed(GridCells)

SetWidthCall ==
    \E n \in Dims :
        n * height <= GridCells /\ set_width(n) /\ Record("set_width", <<n>>) /\ Void

SetHeightCall ==
    \E n \in Dims :
        n * width <= GridCells /\ set_height(n) /\ Record("set_height", <<n>>) /\ Void

NextResize ==
    \/ SetWidthCall
    \/ SetHeightCall

SpecResize == InitResize /\ [][NextResize]_vars

----------------------------------------------------------------------------
(* SpecCell: recorded calls of toggle_cell and set_alive_cell.             *)

InitCell == Constructed(MaxCells)

ToggleCall ==
    \E row \in Dims, col \in Dims :
        toggle_cell(row, col) /\ Record("toggle_cell", <<row, col>>) /\ Void

SetAliveCall ==
    \E row \in Dims, col \in Dims :
        set_alive_cell(row, col) /\ Record("set_alive_cell", <<row, col>>) /\ Void

NextCell ==
    \/ ToggleCall
    \/ SetAliveCall

SpecCell == InitCell /\ [][NextCell]_vars

----------------------------------------------------------------------------
(* SpecSetCells: one recorded call of set_cells on a constructed universe. *)

InitSetCells == Constructed(MaxCells)

SetCellsCall ==
    /\ op = "new"
    /\ \E list \in Lists(ListLen) :
           set_cells(list) /\ Record("set_cells", list) /\ Void

NextSetCells == SetCellsCall

SpecSetCells == InitSetCells /\ [][NextSetCells]_vars

----------------------------------------------------------------------------
(* SpecGlider: an all-dead universe of at least 5 by 5 cells is seeded     *)
(* with a glider by set_cells and then ticked.                             *)

GliderDims == 5 .. MaxGliderDim

\* The classic glider, as offsets from its origin; it travels one row down
\* and one column right every 4 generations.
GliderShape == <<<<0, 1>>, <<1, 2>>, <<2, 0>>, <<2, 1>>, <<2, 2>>>>

\* The glider with its origin at (r0, c0) on a torus of h rows and w columns.
GliderAt(r0, c0, w, h) ==
    [i \in 1 .. 5 |-> <<(r0 + GliderShape[i][1]) % h, (c0 + GliderShape[i][2]) % w>>]

\* The state after new(w, h) and set_width(w): every cell is Dead.
InitGlider ==
    /\ \E w \in GliderDims, h \in GliderDims :
           /\ width = w
           /\ height = h
           /\ cells = set_width_cells([width |-> w, height |-> h, cells |-> << >>], w)
           /\ canvas_width = (CELL_SIZE + 1) * w + 1
           /\ canvas_height = (CELL_SIZE + 1) * w + 1
    /\ status = "ok"
    /\ op = "set_width"
    /\ args = << >>
    /\ pre = Nil
    /\ ret = << >>
    /\ repeat = FALSE
    /\ seed = << >>
    /\ gen = 0

SeedGlider ==
    /\ op = "set_width"
    /\ \E r0 \in 0 .. height - 1, c0 \in 0 .. width - 1 :
           /\ set_cells(GliderAt(r0, c0, width, height))
           /\ seed' = <<r0, c0>>
    /\ op' = "set_cells"
    /\ gen' = 0
    /\ Void
    /\ UNCHANGED <<args, pre, repeat>>

GliderTick ==
    /\ op \in {"set_cells", "tick"}
    /\ gen < MaxGen
    /\ tick
    /\ op' = "tick"
    /\ gen' = gen + 1
    /\ Void
    /\ UNCHANGED <<args, pre, repeat, seed>>

NextGlider ==
    \/ SeedGlider
    \/ GliderTick

SpecGlider == InitGlider /\ [][NextGlider]_vars

----------------------------------------------------------------------------
(* The claims. *)

\* (row, column) is a position of universe u.
InGrid(u, row, column) ==
    row \in 0 .. u.height - 1 /\ column \in 0 .. u.width - 1

\* The positions of universe u.
Positions(u) == (0 .. u.height - 1) \X (0 .. u.width - 1)

\* The cell of universe u at a position, by the row-major layout.
CellOf(u, row, column) == u.cells[row * u.width + column + 1]

\* The 8 offsets of a cell's neighbours.
Offsets == (({-1, 0, 1}) \X ({-1, 0, 1})) \ {<<0, 0>>}

\* The number of offsets whose cell, taken modulo the dimensions, is Alive.
ToroidalCount(u, row, column) ==
    Cardinality({d \in Offsets :
        CellOf(u, (row + d[1] + u.height) % u.height,
                  (column + d[2] + u.width) % u.width) = Alive})

\* The B3/S23 rule.
B3S23(cell, n) ==
    IF (cell = Alive /\ n \in {2, 3}) \/ (cell = Dead /\ n = 3) THEN Alive ELSE Dead

\* The elements of a list.
Listed(list) == {list[i] : i \in 1 .. Len(list)}

\* C1: after every call of new, tick, random_mutate, set_width, set_height,
\* toggle_cell, set_alive_cell and set_cells that completes, the cell vector
\* holds exactly width * height cells, also when a dimension is 0.
C1_CellsLenIsWidthTimesHeight ==
    status = "ok" => Len(cells) = width * height

\* C1 witness: set_height(0) has completed on a universe 2 cells wide.
C1_Witness_HeightSetToZero ==
    op = "set_height" /\ status = "ok" /\ height = 0 /\ width = 2 /\ cells = << >>

\* C4: after new and after every set_width and set_height the canvas is
\* (CELL_SIZE+1)*width+1 pixels wide and (CELL_SIZE+1)*height+1 pixels high.
C4_CanvasMatchesUniverse ==
    status = "ok" =>
        /\ canvas_width = (CELL_SIZE + 1) * width + 1
        /\ canvas_height = (CELL_SIZE + 1) * height + 1

\* C4 holds of the dimension a set_width or set_height has just set.
C4_ResizeSetsItsOwnSide ==
    /\ (op = "set_width" /\ status = "ok") => canvas_width = (CELL_SIZE + 1) * width + 1
    /\ (op = "set_height" /\ status = "ok") => canvas_height = (CELL_SIZE + 1) * height + 1

C10_Witness_TickAfterWidthOne ==
    op = "tick" /\ status = "ok" /\ width = 1 /\ height = 3
        /\ canvas_width = CELL_SIZE + 2

\* C2: on a universe of at least 1 by 1, every cell after tick is the B3/S23
\* rule applied to its state before the tick and to the number of its 8
\* toroidal neighbours that were Alive before the tick.
C2_TickAppliesRuleToNeighbours ==
    (op = "tick" /\ pre.width >= 1 /\ pre.height >= 1) =>
        /\ status = "ok"
        /\ \A p \in Positions(pre) :
               CellOf(self, p[1], p[2]) =
                   B3S23(CellOf(pre, p[1], p[2]), ToroidalCount(pre, p[1], p[2]))

\* C2, with the neighbours counted as live_neighbor_count counts them: every
\* cell after tick is the rule applied to the universe as it was before.
C2_TickReadsSnapshot ==
    (op = "tick" /\ pre.width >= 1 /\ pre.height >= 1) =>
        /\ status = "ok"
        /\ \A p \in Positions(pre) :
               CellOf(self, p[1], p[2]) =
                   B3S23(CellOf(pre, p[1], p[2]), live_neighbor_count(pre, p[1], p[2]))

\* C2 case: tick has run on a universe 1 wide and 3 high whose only live
\* cell was (0, 0).
C2_Witness_LoneCellInColumn ==
    op = "tick" /\ status = "ok" /\ pre.width = 1 /\ pre.height = 3
        /\ pre.cells = <<Alive, Dead, Dead>>

\* C3: on a universe of at least 1 by 1, live_neighbor_count(row, column) of
\* a position of the universe returns the number, between 0 and 8, of the 8
\* offsets whose cell modulo the dimensions is Alive.
C3_CountIsToroidalCount ==
    (op = "live_neighbor_count" /\ pre.width >= 1 /\ pre.height >= 1
        /\ InGrid(pre, args[1], args[2])) =>
        /\ status = "ok"
        /\ ret \in 0 .. 8
        /\ ret = ToroidalCount(pre, args[1], args[2])

\* C3 on universes of at least 2 by 2.
C3_CountIsToroidalCountFromTwo ==
    (op = "live_neighbor_count" /\ pre.width >= 2 /\ pre.height >= 2
        /\ InGrid(pre, args[1], args[2])) =>
        /\ status = "ok"
        /\ ret \in 0 .. 8
        /\ ret = ToroidalCount(pre, args[1], args[2])

\* C3 case: live_neighbor_count(0, 0) has returned on a 1 by 1 universe
\* whose cell is Alive.
C3_Witness_OneByOne ==
    op = "live_neighbor_count" /\ status = "ok" /\ pre.width = 1 /\ pre.height = 1
        /\ pre.cells = <<Alive>>

\* C3 case: on a 3 by 3 universe whose only live cell is (2, 2),
\* live_neighbor_count(0, 0) has returned 1.
C3_Witness_DiagonalWrap ==
    op = "live_neighbor_count" /\ status = "ok" /\ args = <<0, 0>>
        /\ pre.width = 3 /\ pre.height = 3
        /\ pre.cells = <<Dead, Dead, Dead, Dead, Dead, Dead, Dead, Dead, Alive>>
        /\ ret = 1

\* C5: set_width(n) and set_height(n) leave every cell Dead, set their own
\* dimension to n and leave the other dimension as it was.
C5_ResizeResetsEveryCell ==
    /\ (op = "set_width" /\ status = "ok") =>
           /\ \A i \in 1 .. Len(cells) : cells[i] = Dead
           /\ width = args[1]
           /\ height = pre.height
    /\ (op = "set_height" /\ status = "ok") =>
           /\ \A i \in 1 .. Len(cells) : cells[i] = Dead
           /\ height = args[1]
           /\ width = pre.width

\* C5 witness: set_width(n) has completed on a universe that was already n
\* wide and had a live cell, so that no cell of the result is newly added.
C5_Witness_SameWidthWithLiveCell ==
    op = "set_width" /\ status = "ok" /\ pre.width = args[1] /\ Len(cells) > 0
        /\ \E i \in 1 .. Len(pre.cells) : pre.cells[i] = Alive

\* C6: a second toggle_cell(r, c) at a position of the universe restores the
\* cells to what they were before the first, and a second set_alive_cell(r, c)
\* changes nothing and leaves the cell at (r, c) Alive.
C6_ToggleTwiceSetAliveTwice ==
    [][/\ (op = "toggle_cell" /\ status = "ok" /\ InGrid(self, args[1], args[2])
              /\ op' = "toggle_cell" /\ args' = args) =>
              (status' = "ok" /\ cells' = pre.cells
                  /\ width' = pre.width /\ height' = pre.height)
       /\ (op = "set_alive_cell" /\ status = "ok" /\ InGrid(self, args[1], args[2])
              /\ op' = "set_alive_cell" /\ args' = args) =>
              (status' = "ok" /\ cells' = cells /\ width' = width /\ height' = height
                  /\ CellOf(self, args[1], args[2])' = Alive)]_vars

\* C6 witness: toggle_cell(r, c) has completed twice in a row at a position
\* of the universe.
C6_Witness_ToggledTwice ==
    op = "toggle_cell" /\ repeat /\ status = "ok" /\ InGrid(self, args[1], args[2])

\* C7: 4k ticks after the glider is seeded at (r0, c0) on an all-dead universe
\* of at least 5 by 5, the live cells are exactly the 5 cells of the glider
\* at (r0 + k, c0 + k), modulo height and width.
C7_GliderTravelsDiagonally ==
    (seed # << >> /\ gen % 4 = 0) =>
        /\ status = "ok"
        /\ {p \in Positions(self) : CellOf(self, p[1], p[2]) = Alive}
               = Listed(GliderAt(seed[1] + gen \div 4, seed[2] + gen \div 4,
                                 width, height))
        /\ Cardinality({i \in 1 .. Len(cells) : cells[i] = Alive}) = 5

\* C7 witness: at least 4 ticks after seeding, at a multiple of 4, the glider
\* lies across the bottom and the right edge.
C7_Witness_GliderAcrossEdges ==
    /\ seed # << >> /\ gen >= 4 /\ gen % 4 = 0 /\ status = "ok"
    /\ \E c \in 0 .. width - 1 : CellOf(self, 0, c) = Alive
    /\ \E c \in 0 .. width - 1 : CellOf(self, height - 1, c) = Alive
    /\ \E r \in 0 .. height - 1 : CellOf(self, r, 0) = Alive
    /\ \E r \in 0 .. height - 1 : CellOf(self, r, width - 1) = Alive

\* The glyph of a cell: hollow for Dead, filled for Alive.
Glyph(cell) == IF cell = Dead THEN "hollow" ELSE "filled"

\* The text is height lines, each of width glyphs and a line feed, the glyph
\* at line r, position c being that of the cell at index r * width + c.
TextShowsUniverse(text, u) ==
    /\ Len(text) = u.height * (u.width + 1)
    /\ \A r \in 0 .. u.height - 1 :
           /\ text[r * (u.width + 1) + u.width + 1] = "\n"
           /\ \A c \in 0 .. u.width - 1 :
                  text[r * (u.width + 1) + c + 1] = Glyph(cell_at(u, r * u.width + c))

\* C8: render completes on every universe, also when width or height is 0,
\* and returns the text showing the universe.
C8_RenderShowsUniverse ==
    op = "render" => (status = "ok" /\ TextShowsUniverse(ret, pre))

\* C8 on universes at least 1 wide.
C8_RenderShowsUniverseFromWidthOne ==
    (op = "render" /\ pre.width >= 1) => (status = "ok" /\ TextShowsUniverse(ret, pre))

\* C8 case: render has been called on a universe of width 0 and height 2.
C8_Witness_RenderOnWidthZero ==
    op = "render" /\ pre.width = 0 /\ pre.height = 2

\* What C9 says of a completed set_cells(list): width and height are
\* unchanged, every position that is not listed is as before, and every
\* listed position of the universe is Alive.
SetCellsOnlySetsListed(list) ==
    /\ width = pre.width
    /\ height = pre.height
    /\ \A p \in Positions(pre) :
           /\ p \notin Listed(list) => CellOf(self, p[1], p[2]) = CellOf(pre, p[1], p[2])
           /\ p \in Listed(list) => CellOf(self, p[1], p[2]) = Alive

\* C9 as stated: for every list on which set_cells completes, whether or not
\* its pairs are positions of the universe.
C9_SetCellsFrame_AnyList ==
    (op = "set_cells" /\ status = "ok") => SetCellsOnlySetsListed(args)

\* C9 as amended: for every list whose pairs are all positions of the
\* universe (row < height and col < width), with or without duplicates.
C9_SetCellsFrame_ListInGrid ==
    (op = "set_cells" /\ status = "ok"
        /\ \A i \in 1 .. Len(args) : InGrid(pre, args[i][1], args[i][2])) =>
        SetCellsOnlySetsListed(args)

\* C9 witness: set_cells has completed on a list naming one position of the
\* universe twice, the position was Dead, and a position not listed was Alive.
C9_Witness_DuplicateInGrid ==
    /\ op = "set_cells" /\ status = "ok" /\ Len(args) = 2 /\ args[1] = args[2]
    /\ InGrid(pre, args[1][1], args[1][2])
    /\ CellOf(pre, args[1][1], args[1][2]) = Dead
    /\ \E p \in Positions(pre) : p # args[1] /\ CellOf(pre, p[1], p[2]) = Alive

====
